---- MODULE Spec2Model ----
(***************************************************************************)
(* Model of winbuild/susres.cpp: the "susres" utility that suspends,       *)
(* resumes or probes the suspend status of every thread of a process.      *)
(* The tool is single threaded; the operating system state it acts on      *)
(* (threads, their owners and suspend counts) is shared with the target    *)
(* process and with other actors, which may act between any two OS calls.  *)
(***************************************************************************)
EXTENDS Integers, Sequences, FiniteSets, TLC

\* ------------------------------------------------------------------ bounds
NumThreads == 2      \* thread identifiers 1..NumThreads exist in the system
MaxCount == 1        \* highest suspend count at the start and that other actors set
MaxEnv == 1          \* steps taken by actors other than the tool
MaxRuns == 2         \* earlier invocations remembered in a session
MaxNest == 3         \* earlier successful invocations in a nested session

Tids == 1..NumThreads
\* The tool tells processes apart only by comparing an owner id with its
\* target (line 85): one process that a pid argument can name and one that is
\* always somebody else's stand for all of them.
Pids == {1, 2}

\* ------------------------------------------------------------- state
VARIABLES
  owner, count,            \* OS: per thread id, owning pid (0: id unused) and suspend count
  denied,                  \* OS: threads whose security descriptor refuses the tool
  argv,                    \* the command line of the running invocation
  pc,                      \* position of the invocation
  cmd, pid,                \* main's locals
  func, proc, res,         \* apply's locals
  snapshot, entries, idx,  \* status: snapshot handle, its contents, cursor
  haveThread, foundThread, allSuspended,
  thread, previousCount, resumeCount,
  htab,                    \* OS handle table of the tool's process
  out, rc,                 \* lines printed, exit code
  calls,                   \* history: OS calls issued by this invocation
  count0, owner0, env0,    \* history: OS state / other actors' steps when the invocation started
  envSteps, envAtExit,     \* history: steps of other actors (now / when the run returned)
  log                      \* history: earlier invocations of the session

osVars == <<owner, count, denied>>
mainVars == <<argv, cmd, pid>>
applyVars == <<func, proc, res>>
statusVars == <<snapshot, entries, idx, haveThread, foundThread, allSuspended,
                thread, previousCount, resumeCount>>
histVars == <<count0, owner0, env0, log>>
vars == <<owner, count, denied, argv, pc, cmd, pid, func, proc, res, snapshot, entries,
          idx, haveThread, foundThread, allSuspended, thread, previousCount,
          resumeCount, htab, out, rc, calls, count0, owner0, env0, envSteps,
          envAtExit, log>>

\* ------------------------------------------------------------- handles
\* Handle values are integers: a real handle is an index into htab.
NullHandle == 0
InvalidHandleValue == 0 - 1

IsOpen(h) == h \in 1..Len(htab) /\ htab[h].open

\* The handle table after the OS hands out a fresh handle on object obj.
NewHandle(kind, obj) == Append(htab, [kind |-> kind, obj |-> obj, open |-> TRUE, closes |-> 0])
FreshHandle == Len(htab) + 1

\* CloseHandle(h) applied to table tab: an open handle is released; closing
\* anything else (NULL, a stale value) fails and leaves the table's open set alone.
CloseIn(tab, h) ==
  IF h \in 1..Len(tab)
    THEN [tab EXCEPT ![h] = [@ EXCEPT !.open = FALSE, !.closes = @ + 1]]
    ELSE tab

CallRec(op, arg, ret) == [op |-> op, arg |-> arg, ret |-> ret]

\* ------------------------------------------------------------- DWORD
\* A 32-bit DWORD is the pair <<high 16 bits, low 16 bits>>.
Limb == 65536
Dword(n) == <<n \div Limb, n % Limb>>

\* ------------------------------------------------------------- output
\* A printed line: the call or result it reports, the identifier it shows, and
\* whether it carries win32_strerror's decoded text.
Line(call, id, decoded) == [call |-> call, id |-> id, decoded |-> decoded]
UsageLine == Line("Usage", Dword(0), FALSE)

\* ------------------------------------------------------------- OS threads
ProcessExists(p) == \E t \in Tids : owner[t] # 0 /\ Dword(owner[t]) = p
ThreadsOf(own, p) == {t \in Tids : own[t] # 0 /\ Dword(own[t]) = p}

\* the suspend counts after one SuspendThread / ResumeThread on thread t
Suspended(c, t) == [c EXCEPT ![t] = @ + 1]
\* mutant: the resume does not take the suspend back
Resumed_Skip(c, t) == c
Resumed(c, t) == [c EXCEPT ![t] = IF @ > 0 THEN @ - 1 ELSE @]

\* NtSuspendProcess / NtResumeProcess on the process with DWORD id p.
\* mutant: the whole-process suspend reports success without suspending
SuspendAll_NoOp(p) == count
\* mutant: the whole-process suspend does not raise a count that is already positive
SuspendAll_Idempotent(p) ==
  [t \in Tids |-> IF t \in ThreadsOf(owner, p) /\ count[t] = 0 THEN 1 ELSE count[t]]
SuspendAll(p) == [t \in Tids |-> IF t \in ThreadsOf(owner, p) THEN Suspended(count, t)[t] ELSE count[t]]
\* mutant: the whole-process resume reports success without resuming
ResumeAll_NoOp(p) == count
ResumeAll(p) == [t \in Tids |-> IF t \in ThreadsOf(owner, p) THEN Resumed(count, t)[t] ELSE count[t]]

\* ------------------------------------------------------------- _atoi64
\* A 64-bit value is four 16-bit limbs, least significant first.
Zero64 == <<0, 0, 0, 0>>

DigitVal(c) ==
  CASE c = "0" -> 0 [] c = "1" -> 1 [] c = "2" -> 2 [] c = "3" -> 3 [] c = "4" -> 4
    [] c = "5" -> 5 [] c = "6" -> 6 [] c = "7" -> 7 [] c = "8" -> 8 [] c = "9" -> 9
    [] OTHER -> 0 - 1

\* v * 10 + d modulo 2^64
MulAdd10(v, d) ==
  LET a0 == v[1] * 10 + d
      a1 == v[2] * 10 + (a0 \div Limb)
      a2 == v[3] * 10 + (a1 \div Limb)
      a3 == v[4] * 10 + (a2 \div Limb)
  IN <<a0 % Limb, a1 % Limb, a2 % Limb, a3 % Limb>>

\* two's complement negation modulo 2^64
Negate64(v) ==
  LET b0 == (Limb - 1 - v[1]) + 1
      b1 == (Limb - 1 - v[2]) + (b0 \div Limb)
      b2 == (Limb - 1 - v[3]) + (b1 \div Limb)
      b3 == (Limb - 1 - v[4]) + (b2 \div Limb)
  IN <<b0 % Limb, b1 % Limb, b2 % Limb, b3 % Limb>>

RECURSIVE AccDigits(_, _, _)
AccDigits(s, i, v) ==
  IF i > Len(s) \/ DigitVal(s[i]) < 0 THEN v
  ELSE AccDigits(s, i + 1, MulAdd10(v, DigitVal(s[i])))

RECURSIVE SkipSpace(_, _)
SkipSpace(s, i) == IF i <= Len(s) /\ s[i] = " " THEN SkipSpace(s, i + 1) ELSE i

\* _atoi64: leading blanks, an optional sign, then digits up to the first non-digit.
Atoi64(s) ==
  LET i == SkipSpace(s, 1)
      neg == i <= Len(s) /\ s[i] = "-"
      j == IF i <= Len(s) /\ (s[i] = "-" \/ s[i] = "+") THEN i + 1 ELSE i
      v == AccDigits(s, j, Zero64)
  IN IF neg THEN Negate64(v) ELSE v

\* mutant: a value that does not fit 32 bits is clamped to 0xFFFFFFFF
ToDword_Saturate(v) == IF v[3] # 0 \/ v[4] # 0 THEN <<Limb - 1, Limb - 1>> ELSE <<v[2], v[1]>>
\* assignment of the __int64 to DWORD pid: the low 32 bits, as <<high 16, low 16>>
ToDword(v) == <<v[2], v[1]>>

\* ------------------------------------------------------------- inputs
Prog == "susres"
PidArgs == {<<"1">>, <<"7">>}
Verbs == {"suspend", "resume", "status"}
BadArgvs == {<<Prog>>, <<Prog, "status">>, <<Prog, "status", <<"1">>, <<"1">>>>,
             <<Prog, "kill", <<"1">>>>}
Argvs == BadArgvs \cup {<<Prog, v, a>> : v \in Verbs, a \in PidArgs}

\* ------------------------------------------------------------- initial state
Locals0 ==
  /\ pc = "main"
  /\ cmd = "none" /\ pid = Dword(0)
  /\ func = "null" /\ proc = NullHandle /\ res = "STATUS_SUCCESS"
  /\ snapshot = NullHandle /\ entries = <<>> /\ idx = 0
  /\ haveThread = FALSE /\ foundThread = FALSE /\ allSuspended = FALSE
  /\ thread = NullHandle /\ previousCount = 0 /\ resumeCount = 0
  /\ htab = <<>> /\ out = <<>> /\ rc = 0 /\ calls = <<>>

\* Thread identifiers carry no meaning for the tool (it only passes them to
\* OpenThread), so initial states are taken up to renaming of thread ids:
\* unused ids first, then by owner, then by suspend count.
OsStates ==
  {os \in [owner : [Tids -> {0} \cup Pids], count : [Tids -> 0..MaxCount],
           denied : SUBSET Tids] :
     /\ \A t \in Tids : os.owner[t] = 0 => os.count[t] = 0 /\ t \notin os.denied
     /\ \A t \in Tids : t + 1 \in Tids =>
           \/ os.owner[t] < os.owner[t + 1]
           \/ os.owner[t] = os.owner[t + 1] /\ os.count[t] < os.count[t + 1]
           \/ /\ os.owner[t] = os.owner[t + 1] /\ os.count[t] = os.count[t + 1]
              /\ (t \in os.denied => t + 1 \in os.denied)}

InitWith(args) ==
  /\ \E os \in OsStates : owner = os.owner /\ count = os.count /\ denied = os.denied
  /\ argv \in args
  /\ Locals0
  /\ count0 = count /\ owner0 = owner /\ env0 = 0
  /\ envSteps = 0 /\ envAtExit = 0
  /\ log = <<>>

Init == InitWith(Argvs)

\* ------------------------------------------------------------- returning
\* The invocation ends with exit code c after printing the lines ls.
Exit(c, ls) ==
  /\ pc' = "exit"
  /\ rc' = c
  /\ out' = out \o ls
  /\ envAtExit' = envSteps

\* ------------------------------------------------------------- main
\* usage() prints the usage text and calls exit(1): it never returns to main.
usage == Exit(1, <<UsageLine>>)

\* mutant: the last branch of the verb chain falls through to a command
CommandOf_Default(verb) ==
  IF verb = "suspend" THEN "Suspend"
  ELSE IF verb = "resume" THEN "Resume"
  ELSE "Status"
CommandOf(verb) ==
  IF verb = "suspend" THEN "Suspend"
  ELSE IF verb = "resume" THEN "Resume"
  ELSE IF verb = "status" THEN "Status"
  ELSE "none"

Main ==
  /\ pc = "main"
  /\ IF Len(argv) # 3
       THEN usage /\ UNCHANGED <<cmd, pid>>
     ELSE IF CommandOf(argv[2]) = "none"
       THEN usage /\ UNCHANGED <<cmd, pid>>
     ELSE /\ cmd' = CommandOf(argv[2])
          /\ pid' = ToDword(Atoi64(argv[3]))
          /\ pc' = IF cmd' = "Status" THEN "CreateToolhelp32Snapshot" ELSE "GetProcAddress"
          /\ UNCHANGED <<rc, out, envAtExit>>
  /\ UNCHANGED <<osVars, argv, applyVars, statusVars, htab, calls, histVars, envSteps>>

\* ------------------------------------------------------------- apply
suspend == cmd = "Suspend"
name == IF suspend THEN "NtSuspendProcess" ELSE "NtResumeProcess"

\* mutant: the failed lookup is reported but apply carries on
ApplyGetProcAddress_Fallthrough ==
  /\ pc = "GetProcAddress"
  /\ \E found \in BOOLEAN :
       /\ func' = IF found THEN name ELSE "null"
       /\ calls' = Append(calls, CallRec("GetProcAddress", 0, IF found THEN 1 ELSE 0))
       /\ out' = IF found THEN out ELSE Append(out, Line("GetProcAddress", Dword(0), TRUE))
       /\ pc' = "OpenProcess"
       /\ UNCHANGED <<rc, envAtExit>>
  /\ UNCHANGED <<osVars, mainVars, proc, res, statusVars, htab, histVars, envSteps>>

\* lines 39-47: resolve the whole-process primitive in ntdll
ApplyGetProcAddress ==
  /\ pc = "GetProcAddress"
  /\ \E found \in BOOLEAN :
       /\ func' = IF found THEN name ELSE "null"
       /\ calls' = Append(calls, CallRec("GetProcAddress", 0, IF found THEN 1 ELSE 0))
       /\ IF func' = "null"
            THEN Exit(1, <<Line("GetProcAddress", Dword(0), TRUE)>>)
            ELSE pc' = "OpenProcess" /\ UNCHANGED <<rc, out, envAtExit>>
  /\ UNCHANGED <<osVars, mainVars, proc, res, statusVars, htab, histVars, envSteps>>

\* OpenProcess returns NULL when it fails, a new handle otherwise.
OpenProcessResult(ok) == IF ok THEN FreshHandle ELSE NullHandle

\* lines 49-54
ApplyOpenProcess ==
  /\ pc = "OpenProcess"
  /\ \E ok \in BOOLEAN :
       /\ ok => ProcessExists(pid)
       /\ proc' = OpenProcessResult(ok)
       /\ htab' = IF ok THEN NewHandle("process", pid) ELSE htab
       /\ calls' = Append(calls, CallRec("OpenProcess", 0, proc'))
  /\ IF proc' = InvalidHandleValue
       THEN Exit(1, <<Line("OpenProcess", pid, TRUE)>>)
       ELSE pc' = "func" /\ UNCHANGED <<rc, out, envAtExit>>
  /\ UNCHANGED <<osVars, mainVars, func, res, statusVars, histVars, envSteps>>

\* lines 56-61: res = func(proc), reported when non-zero
ApplyFunc ==
  /\ pc = "func"
  /\ \E ok \in BOOLEAN :
       /\ ok => (IsOpen(proc) /\ htab[proc].kind = "process" /\ ProcessExists(htab[proc].obj))
       /\ res' = IF ok THEN "STATUS_SUCCESS"
                 ELSE IF IsOpen(proc) THEN "STATUS_ACCESS_DENIED" ELSE "STATUS_INVALID_HANDLE"
       /\ count' = IF ~ok THEN count
                   ELSE IF func = "NtSuspendProcess" THEN SuspendAll(htab[proc].obj)
                   ELSE ResumeAll(htab[proc].obj)
       /\ calls' = Append(calls, CallRec(func, proc, IF ok THEN 0 ELSE 1))
  /\ out' = IF res' # "STATUS_SUCCESS" THEN Append(out, Line(name, pid, TRUE)) ELSE out
  /\ pc' = "CloseHandle"
  /\ UNCHANGED <<owner, denied, mainVars, func, proc, statusVars, htab, rc, histVars, envSteps, envAtExit>>

\* mutant: apply returns 0 whatever the primitive returned
ApplyClose_AlwaysZero ==
  /\ pc = "CloseHandle"
  /\ htab' = CloseIn(htab, proc)
  /\ calls' = Append(calls, CallRec("CloseHandle", proc, IF IsOpen(proc) THEN 1 ELSE 0))
  /\ Exit(0, <<>>)
  /\ UNCHANGED <<osVars, mainVars, applyVars, statusVars, histVars, envSteps>>

\* lines 63-65
ApplyClose ==
  /\ pc = "CloseHandle"
  /\ htab' = CloseIn(htab, proc)
  /\ calls' = Append(calls, CallRec("CloseHandle", proc, IF IsOpen(proc) THEN 1 ELSE 0))
  /\ Exit(IF res = "STATUS_SUCCESS" THEN 0 ELSE 1, <<>>)
  /\ UNCHANGED <<osVars, mainVars, applyVars, statusVars, histVars, envSteps>>

apply == ApplyGetProcAddress \/ ApplyOpenProcess \/ ApplyFunc \/ ApplyClose

\* ------------------------------------------------------------- status
\* The contents of a thread snapshot: every live thread of the system once,
\* in an order the OS chooses.
Snapshots ==
  LET live == {t \in Tids : owner[t] # 0}
      n == Cardinality(live)
  IN {[i \in 1..n |-> [th32ThreadID |-> f[i], th32OwnerProcessID |-> owner[f[i]]]] :
        f \in {g \in [1..n -> live] : \A i, j \in 1..n : g[i] = g[j] => i = j}}

entry == entries[idx]

\* Thread32Next on the cursor: advance, FALSE when the snapshot is exhausted
Thread32Next ==
  /\ idx' = idx + 1
  /\ haveThread' = (idx + 1 <= Len(entries))

\* lines 69-82: take the snapshot, Thread32First, initialise the flags
StatusSnapshot ==
  /\ pc = "CreateToolhelp32Snapshot"
  /\ \E ok \in BOOLEAN :
       IF ~ok
         THEN /\ snapshot' = InvalidHandleValue
              /\ calls' = Append(calls, CallRec("CreateToolhelp32Snapshot", 0, snapshot'))
              /\ Exit(1, <<Line("CreateToolhelp32Snapshot", Dword(0), TRUE)>>)
              /\ UNCHANGED <<entries, idx, haveThread, foundThread, allSuspended, htab>>
         ELSE /\ snapshot' = FreshHandle
              /\ htab' = NewHandle("snapshot", 0)
              /\ calls' = Append(calls, CallRec("CreateToolhelp32Snapshot", 0, snapshot'))
              /\ entries' \in Snapshots
              /\ idx' = 1
              /\ haveThread' = (Len(entries') >= 1)
              /\ foundThread' = FALSE
              /\ allSuspended' = TRUE
              /\ pc' = "loop"
              /\ UNCHANGED <<rc, out, envAtExit>>
  /\ UNCHANGED <<osVars, mainVars, applyVars, thread, previousCount, resumeCount,
                 histVars, envSteps>>

\* lines 84-85, 129: an entry of another process is skipped
StatusSkip ==
  /\ pc = "loop"
  /\ haveThread
  /\ Dword(entry.th32OwnerProcessID) # pid
  /\ Thread32Next
  /\ UNCHANGED <<osVars, mainVars, applyVars, snapshot, entries, foundThread, allSuspended,
                 thread, previousCount, resumeCount, htab, out, rc, pc, calls, histVars,
                 envSteps, envAtExit>>

\* OpenThread(THREAD_SUSPEND_RESUME, tid) succeeds on whichever live thread
\* carries the identifier now, unless that thread refuses the access.
CanOpenThread(tid) == owner[tid] # 0 /\ tid \notin denied

\* mutant: a thread that cannot be opened is skipped instead of aborting the probe
StatusOpenThread_SkipUnreadable ==
  /\ pc = "loop"
  /\ haveThread
  /\ Dword(entry.th32OwnerProcessID) = pid
  /\ foundThread' = TRUE
  /\ thread' = IF CanOpenThread(entry.th32ThreadID) THEN FreshHandle ELSE NullHandle
  /\ calls' = Append(calls, CallRec("OpenThread", entry.th32ThreadID, thread'))
  /\ IF thread' = NullHandle
       THEN /\ Thread32Next
            /\ UNCHANGED <<htab, pc, rc, out, envAtExit>>
       ELSE /\ htab' = NewHandle("thread", entry.th32ThreadID)
            /\ pc' = "SuspendThread"
            /\ UNCHANGED <<idx, haveThread, rc, out, envAtExit>>
  /\ UNCHANGED <<osVars, mainVars, applyVars, snapshot, entries,
                 allSuspended, previousCount, resumeCount, histVars, envSteps>>

\* lines 85-96: an entry of the target: OpenThread on its thread id
StatusOpenThread ==
  /\ pc = "loop"
  /\ haveThread
  /\ Dword(entry.th32OwnerProcessID) = pid
  /\ foundThread' = TRUE
  /\ thread' = IF CanOpenThread(entry.th32ThreadID) THEN FreshHandle ELSE NullHandle
  /\ calls' = Append(calls, CallRec("OpenThread", entry.th32ThreadID, thread'))
  /\ IF thread' = NullHandle
       THEN /\ htab' = CloseIn(htab, snapshot)
            /\ Exit(1, <<Line("OpenThread", Dword(entry.th32ThreadID), TRUE)>>)
       ELSE /\ htab' = NewHandle("thread", entry.th32ThreadID)
            /\ pc' = "SuspendThread"
            /\ UNCHANGED <<rc, out, envAtExit>>
  /\ UNCHANGED <<osVars, mainVars, applyVars, snapshot, entries, idx, haveThread,
                 allSuspended, previousCount, resumeCount, histVars, envSteps>>

\* the thread a thread handle refers to, and whether a call through it can succeed
ThreadOf(h) == htab[h].obj
LiveThreadHandle(h) == IsOpen(h) /\ htab[h].kind = "thread" /\ owner[htab[h].obj] # 0

\* mutant: the failure return after SuspendThread forgets the thread handle
StatusSuspendThread_Leak ==
  /\ pc = "SuspendThread"
  /\ \E ok \in BOOLEAN :
       /\ ok => LiveThreadHandle(thread)
       /\ previousCount' = IF ok THEN count[ThreadOf(thread)] ELSE 0 - 1
       /\ count' = IF ok THEN Suspended(count, ThreadOf(thread)) ELSE count
       /\ calls' = Append(calls, CallRec("SuspendThread", thread, previousCount'))
  /\ IF previousCount' = 0 - 1
       THEN /\ htab' = CloseIn(htab, snapshot)
            /\ Exit(1, <<Line("SuspendThread", Dword(entry.th32ThreadID), TRUE)>>)
       ELSE /\ pc' = "ResumeThread"
            /\ UNCHANGED <<htab, rc, out, envAtExit>>
  /\ UNCHANGED <<owner, denied, mainVars, applyVars, snapshot, entries, idx, haveThread,
                 foundThread, allSuspended, thread, resumeCount, histVars, envSteps>>

\* lines 98-107: SuspendThread returns the previous count, or (DWORD)-1
StatusSuspendThread ==
  /\ pc = "SuspendThread"
  /\ \E ok \in BOOLEAN :
       /\ ok => LiveThreadHandle(thread)
       /\ previousCount' = IF ok THEN count[ThreadOf(thread)] ELSE 0 - 1
       /\ count' = IF ok THEN Suspended(count, ThreadOf(thread)) ELSE count
       /\ calls' = Append(calls, CallRec("SuspendThread", thread, previousCount'))
  /\ IF previousCount' = 0 - 1
       THEN /\ htab' = CloseIn(CloseIn(htab, thread), snapshot)
            /\ Exit(1, <<Line("SuspendThread", Dword(entry.th32ThreadID), TRUE)>>)
       ELSE /\ pc' = "ResumeThread"
            /\ UNCHANGED <<htab, rc, out, envAtExit>>
  /\ UNCHANGED <<owner, denied, mainVars, applyVars, snapshot, entries, idx, haveThread,
                 foundThread, allSuspended, thread, resumeCount, histVars, envSteps>>

\* mutant: the resume is left out when the thread was already suspended
StatusResumeThread_Conditional ==
  /\ pc = "ResumeThread"
  /\ \E ok \in BOOLEAN :
       /\ ok => LiveThreadHandle(thread)
       /\ resumeCount' = IF previousCount >= 1 THEN previousCount + 1
                         ELSE IF ok THEN count[ThreadOf(thread)] ELSE 0 - 1
       /\ count' = IF ok /\ previousCount = 0 THEN Resumed(count, ThreadOf(thread)) ELSE count
       /\ calls' = IF previousCount >= 1 THEN calls
                   ELSE Append(calls, CallRec("ResumeThread", thread, resumeCount'))
  /\ IF resumeCount' = 0 - 1
       THEN /\ htab' = CloseIn(CloseIn(htab, thread), snapshot)
            /\ Exit(1, <<Line("ResumeThread", Dword(entry.th32ThreadID), TRUE)>>)
       ELSE /\ pc' = "check"
            /\ UNCHANGED <<htab, rc, out, envAtExit>>
  /\ UNCHANGED <<owner, denied, mainVars, applyVars, snapshot, entries, idx, haveThread,
                 foundThread, allSuspended, thread, previousCount, histVars, envSteps>>

\* lines 109-118: ResumeThread returns the previous count, or (DWORD)-1
StatusResumeThread ==
  /\ pc = "ResumeThread"
  /\ \E ok \in BOOLEAN :
       /\ ok => LiveThreadHandle(thread)
       /\ resumeCount' = IF ok THEN count[ThreadOf(thread)] ELSE 0 - 1
       /\ count' = IF ok THEN Resumed(count, ThreadOf(thread)) ELSE count
       /\ calls' = Append(calls, CallRec("ResumeThread", thread, resumeCount'))
  /\ IF resumeCount' = 0 - 1
       THEN /\ htab' = CloseIn(CloseIn(htab, thread), snapshot)
            /\ Exit(1, <<Line("ResumeThread", Dword(entry.th32ThreadID), TRUE)>>)
       ELSE /\ pc' = "check"
            /\ UNCHANGED <<htab, rc, out, envAtExit>>
  /\ UNCHANGED <<owner, denied, mainVars, applyVars, snapshot, entries, idx, haveThread,
                 foundThread, allSuspended, thread, previousCount, histVars, envSteps>>

\* mutant: a thread suspended once is taken for a running one
StatusCheck_OffByOne ==
  /\ pc = "check"
  /\ htab' = CloseIn(htab, thread)
  /\ IF previousCount <= 1
       THEN /\ allSuspended' = FALSE
            /\ pc' = "finish"
            /\ UNCHANGED <<idx, haveThread>>
       ELSE /\ Thread32Next
            /\ pc' = "loop"
            /\ UNCHANGED allSuspended
  /\ UNCHANGED <<osVars, mainVars, applyVars, snapshot, entries, foundThread, thread,
                 previousCount, resumeCount, out, rc, calls, histVars, envSteps, envAtExit>>

\* mutant: a running thread is noted but the enumeration goes on
StatusCheck_NoBreak ==
  /\ pc = "check"
  /\ htab' = CloseIn(htab, thread)
  /\ allSuspended' = IF previousCount = 0 THEN FALSE ELSE allSuspended
  /\ Thread32Next
  /\ pc' = "loop"
  /\ UNCHANGED <<osVars, mainVars, applyVars, snapshot, entries, foundThread, thread,
                 previousCount, resumeCount, out, rc, calls, histVars, envSteps, envAtExit>>

\* mutant: the thread handle is closed only when the enumeration stops
StatusCheck_KeepHandle ==
  /\ pc = "check"
  /\ IF previousCount = 0
       THEN /\ allSuspended' = FALSE
            /\ htab' = CloseIn(htab, thread)
            /\ pc' = "finish"
            /\ UNCHANGED <<idx, haveThread>>
       ELSE /\ Thread32Next
            /\ pc' = "loop"
            /\ UNCHANGED <<allSuspended, htab>>
  /\ UNCHANGED <<osVars, mainVars, applyVars, snapshot, entries, foundThread, thread,
                 previousCount, resumeCount, out, rc, calls, histVars, envSteps, envAtExit>>

\* mutant: the answer is taken from the last thread probed
StatusCheck_LastWins ==
  /\ pc = "check"
  /\ htab' = CloseIn(htab, thread)
  /\ allSuspended' = (previousCount # 0)
  /\ Thread32Next
  /\ pc' = "loop"
  /\ UNCHANGED <<osVars, mainVars, applyVars, snapshot, entries, foundThread, thread,
                 previousCount, resumeCount, out, rc, calls, histVars, envSteps, envAtExit>>

\* lines 120-129: a running thread ends the enumeration, otherwise move on
StatusCheck ==
  /\ pc = "check"
  /\ htab' = CloseIn(htab, thread)
  /\ IF previousCount = 0
       THEN /\ allSuspended' = FALSE
            /\ pc' = "finish"
            /\ UNCHANGED <<idx, haveThread>>
       ELSE /\ Thread32Next
            /\ pc' = "loop"
            /\ UNCHANGED allSuspended
  /\ UNCHANGED <<osVars, mainVars, applyVars, snapshot, entries, foundThread, thread,
                 previousCount, resumeCount, out, rc, calls, histVars, envSteps, envAtExit>>

\* mutant: the result is printed without looking at foundThread
StatusFinish_NoFoundCheck ==
  /\ \/ pc = "finish"
     \/ pc = "loop" /\ ~haveThread
  /\ htab' = CloseIn(htab, snapshot)
  /\ Exit(0, <<Line(IF allSuspended THEN "T" ELSE "R", Dword(0), FALSE)>>)
  /\ UNCHANGED <<osVars, mainVars, applyVars, statusVars, calls, histVars, envSteps>>

\* lines 132-140: after the loop (exhausted or broken out of)
StatusFinish ==
  /\ \/ pc = "finish"
     \/ pc = "loop" /\ ~haveThread
  /\ htab' = CloseIn(htab, snapshot)
  /\ IF ~foundThread
       THEN Exit(1, <<Line("NoThreads", pid, FALSE)>>)
       ELSE Exit(0, <<Line(IF allSuspended THEN "T" ELSE "R", Dword(0), FALSE)>>)
  /\ UNCHANGED <<osVars, mainVars, applyVars, statusVars, calls, histVars, envSteps>>

status ==
  \/ StatusSnapshot \/ StatusSkip \/ StatusOpenThread \/ StatusSuspendThread
  \/ StatusResumeThread \/ StatusCheck \/ StatusFinish

\* ------------------------------------------------------------- other actors
\* The target and other processes run concurrently with the tool.
HandleOpenOn(t) == \E h \in 1..Len(htab) : htab[h].open /\ htab[h].kind = "thread" /\ htab[h].obj = t

\* Changes made before the run starts are initial states; those made after it
\* returned do not reach it.
EnvStep ==
  /\ pc \notin {"main", "exit"}
  /\ envSteps < MaxEnv
  /\ envSteps' = envSteps + 1
  /\ UNCHANGED <<mainVars, pc, applyVars, statusVars, htab, out, rc, calls, histVars, envAtExit>>

ThreadExit(t) ==
  /\ owner[t] # 0
  /\ owner' = [owner EXCEPT ![t] = 0]
  /\ count' = [count EXCEPT ![t] = 0]
  /\ denied' = denied \ {t}
  /\ EnvStep

\* a thread id is reused only once no handle keeps the old thread object alive
ThreadCreate(t, p) ==
  /\ owner[t] = 0
  /\ ~HandleOpenOn(t)
  /\ owner' = [owner EXCEPT ![t] = p]
  /\ count' = [count EXCEPT ![t] = 0]
  /\ UNCHANGED denied
  /\ EnvStep

\* a thread exits and its identifier is handed to a new thread of another
\* process p before the tool takes its next step
ThreadIdReused(t, p) ==
  /\ owner[t] # 0
  /\ owner[t] # p
  /\ ~HandleOpenOn(t)
  /\ owner' = [owner EXCEPT ![t] = p]
  /\ count' = [count EXCEPT ![t] = 0]
  /\ denied' = denied \ {t}
  /\ EnvStep

OtherSuspend(t) ==
  /\ owner[t] # 0
  /\ count[t] < MaxCount
  /\ count' = Suspended(count, t)
  /\ UNCHANGED <<owner, denied>>
  /\ EnvStep

OtherResume(t) ==
  /\ owner[t] # 0
  /\ count[t] > 0
  /\ count' = Resumed(count, t)
  /\ UNCHANGED <<owner, denied>>
  /\ EnvStep

Env ==
  \/ \E t \in Tids : ThreadExit(t)
  \/ \E t \in Tids, p \in Pids : ThreadCreate(t, p)
  \/ \E t \in Tids, p \in Pids : ThreadIdReused(t, p)
  \/ \E t \in Tids : OtherSuspend(t)
  \/ \E t \in Tids : OtherResume(t)

\* ------------------------------------------------------------- one invocation
Next == Main \/ apply \/ status \/ Env

Spec == Init /\ [][Next]_vars

\* ------------------------------------------------------------- a session
\* The operator runs the tool again: a new process image, fresh locals and an
\* empty handle table, against the OS state the earlier runs left behind.
\* A session is a series of suspend and resume runs closed by one status query.
RunRecord ==
  [cmd |-> cmd, pid |-> pid, rc |-> rc, count0 |-> count0,
   owner0 |-> owner0, env0 |-> env0, envAtExit |-> envAtExit]

StartRun(a) ==
  /\ log' = Append(log, RunRecord)
  /\ argv' = a
  /\ pc' = "main"
  /\ cmd' = "none" /\ pid' = Dword(0)
  /\ func' = "null" /\ proc' = NullHandle /\ res' = "STATUS_SUCCESS"
  /\ snapshot' = NullHandle /\ entries' = <<>> /\ idx' = 0
  /\ haveThread' = FALSE /\ foundThread' = FALSE /\ allSuspended' = FALSE
  /\ thread' = NullHandle /\ previousCount' = 0 /\ resumeCount' = 0
  /\ htab' = <<>> /\ out' = <<>> /\ rc' = 0 /\ calls' = <<>>
  /\ count0' = count /\ owner0' = owner /\ env0' = envSteps
  /\ UNCHANGED <<osVars, envSteps, envAtExit>>

Reinvoke(a) ==
  /\ pc = "exit"
  /\ cmd # "Status"
  /\ Len(log) < MaxRuns
  /\ StartRun(a)

SeqArgvs == {<<Prog, v, <<"1">>>> : v \in Verbs}

InitSeq == InitWith(SeqArgvs)

\* Within a session the tool is the only actor on the target's threads.
NextSeq == Main \/ apply \/ status \/ \E a \in SeqArgvs : Reinvoke(a)

SpecSeq == InitSeq /\ [][NextSeq]_vars

\* ------------------------------------------------------------- nested sessions
\* A session in which every suspend and resume run succeeded before the next
\* one is started; a failed run changes no suspend count.
ReinvokeAfterSuccess(a) ==
  /\ pc = "exit"
  /\ cmd # "Status"
  /\ rc = 0
  /\ Len(log) < MaxNest
  /\ StartRun(a)

NextNest == Main \/ apply \/ status \/ \E a \in SeqArgvs : ReinvokeAfterSuccess(a)
SpecNest == InitSeq /\ [][NextNest]_vars

\* ------------------------------------------------------------- pid arguments
\* One invocation of each verb over pid arguments that exercise _atoi64 and
\* the narrowing to DWORD: values above 2^32, a negative value, text that is
\* not a number, leading blanks and trailing text.
WidePidArgs ==
  {<<"1">>, <<"2">>,
   <<"4", "2", "9", "4", "9", "6", "7", "2", "9", "7">>,
   <<"8", "5", "8", "9", "9", "3", "4", "5", "9", "4">>,
   <<"-", "4", "2", "9", "4", "9", "6", "7", "2", "9", "5">>,
   <<"a", "b", "c">>,
   <<" ", "2", "x">>}
ArgArgvs == {<<Prog, v, a>> : v \in Verbs, a \in WidePidArgs}
InitArgs == InitWith(ArgArgvs)
NextArgs == Main \/ apply \/ status
SpecArgs == InitArgs /\ [][NextArgs]_vars

\* ============================================================= properties
Done == pc = "exit"
IsStatus == cmd = "Status"

\* no other actor has acted since this invocation started / since it returned
Undisturbed == envSteps = env0
Settled == envSteps = envAtExit

PrintedOnly(l) == Len(out) = 1 /\ out[1].call = l
PrintedLetter == \E i \in 1..Len(out) : out[i].call \in {"T", "R"}

CallsTo(op) == {i \in 1..Len(calls) : calls[i].op = op}
SnapshotTaken == snapshot \in 1..Len(htab)

\* every OS call the status run issued succeeded
StatusCallsSucceeded ==
  /\ \A i \in CallsTo("CreateToolhelp32Snapshot") : calls[i].ret # InvalidHandleValue
  /\ \A i \in CallsTo("OpenThread") : calls[i].ret # NullHandle
  /\ \A i \in CallsTo("SuspendThread") : calls[i].ret >= 0
  /\ \A i \in CallsTo("ResumeThread") : calls[i].ret >= 0

\* threads the probe suspended, and the previous counts it saw
Probes == {i \in CallsTo("SuspendThread") : calls[i].ret >= 0}
ProbedTids == {htab[calls[i].arg].obj : i \in Probes}

\* the snapshot's entries that belong to the target
TargetEntries == {i \in 1..Len(entries) : Dword(entries[i].th32OwnerProcessID) = pid}

\* ---- C1
AfterSuspend ==
  /\ Done /\ IsStatus /\ Settled
  /\ Len(log) >= 1
  /\ log[Len(log)].cmd = "Suspend" /\ log[Len(log)].pid = pid /\ log[Len(log)].rc = 0
  /\ envSteps = log[Len(log)].envAtExit
  /\ ThreadsOf(owner, pid) # {}

ReportsAllSuspended ==
  /\ rc = 0 /\ PrintedOnly("T")
  /\ ProbedTids = ThreadsOf(owner, pid)
  /\ \A i \in Probes : calls[i].ret >= 1

\* C1 as stated: after suspend(P) returned 0 and with no other actor, the
\* following status(P) probes every thread of P, sees a previous count >= 1 on
\* each, prints T and returns 0.
C1_Original == AfterSuspend => ReportsAllSuspended

\* C1 (amended): after suspend(P) returned 0 and with no other actor, a
\* following status(P) whose snapshot, thread opens, suspends and resumes all
\* succeed probes every thread of P, sees a previous count >= 1 on each, prints
\* T and returns 0.
C1_SuspendThenStatus == (AfterSuspend /\ StatusCallsSucceeded) => ReportsAllSuspended

C1_Witness ==
  AfterSuspend /\ StatusCallsSucceeded /\ Cardinality(ThreadsOf(owner, pid)) >= 2

\* ---- C2
AfterRoundTrip ==
  /\ Done /\ IsStatus /\ Settled
  /\ Len(log) >= 2
  /\ LET s == log[Len(log) - 1]
         r == log[Len(log)]
     IN /\ s.cmd = "Suspend" /\ s.pid = pid /\ s.rc = 0
        /\ r.cmd = "Resume" /\ r.pid = pid /\ r.rc = 0
        /\ ThreadsOf(s.owner0, pid) # {}
        /\ \A t \in ThreadsOf(s.owner0, pid) : s.count0[t] = 0
        /\ envSteps = s.env0

ReportsRunning ==
  /\ rc = 0 /\ PrintedOnly("R")
  /\ \A t \in ThreadsOf(owner, pid) : count[t] = 0

\* C2 as stated: with all counts of P at 0 and no other actor, suspend(P), then
\* resume(P), then status(P) prints R, returns 0 and leaves every count at 0.
C2_Original == AfterRoundTrip => ReportsRunning

\* C2 (amended): the same, for a status(P) whose snapshot, thread opens,
\* suspends and resumes all succeed.
C2_RoundTrip == (AfterRoundTrip /\ StatusCallsSucceeded) => ReportsRunning

C2_Witness ==
  AfterRoundTrip /\ StatusCallsSucceeded /\ Cardinality(ThreadsOf(owner, pid)) >= 2

\* ---- C3
\* C3: when status(P) printed T or R and no other actor acted during the run,
\* every thread of P has the suspend count it had when status started.
C3_StatusNetZero ==
  (Done /\ IsStatus /\ Undisturbed /\ PrintedLetter) =>
     \A t \in ThreadsOf(owner0, pid) : count[t] = count0[t]

C3_Witness ==
  /\ Done /\ IsStatus /\ Undisturbed /\ PrintedOnly("T")
  /\ Cardinality(Probes) >= 2
  /\ \E t \in ThreadsOf(owner0, pid) : count0[t] >= 1

\* ---- C4
\* The reference predicates, on the state before the probe. "Every thread
\* owned by P in the snapshot" speaks of the threads P has there: it is read
\* with at least one such thread (the no-thread case is C5's).
AllSuspendedBefore ==
  /\ TargetEntries # {}
  /\ \A i \in TargetEntries : count0[entries[i].th32ThreadID] >= 1
SomeRunningBefore == \E i \in TargetEntries : count0[entries[i].th32ThreadID] = 0

ProbeRan == Done /\ IsStatus /\ Undisturbed /\ SnapshotTaken /\ StatusCallsSucceeded

\* C4: when every OS call succeeds and the target is not mutated during the
\* probe, status prints T iff every thread of P in the snapshot had count >= 1
\* before the probe, and R iff at least one had count 0.
C4_Verdict ==
  ProbeRan => /\ PrintedOnly("T") <=> AllSuspendedBefore
              /\ PrintedOnly("R") <=> SomeRunningBefore

C4_Witness ==
  /\ ProbeRan /\ Cardinality(TargetEntries) >= 2
  /\ PrintedOnly("R")
  /\ \E i \in TargetEntries : count0[entries[i].th32ThreadID] >= 1

\* ---- C5
\* C5: a status run whose snapshot holds no thread of the pid returns 1 with
\* the no-threads diagnostic and prints neither T nor R.
C5_NoThreadsFound ==
  (Done /\ IsStatus /\ SnapshotTaken /\ TargetEntries = {}) =>
     /\ rc = 1
     /\ PrintedOnly("NoThreads")
     /\ ~PrintedLetter

C5_Witness ==
  /\ Done /\ IsStatus /\ SnapshotTaken /\ TargetEntries = {}
  /\ Len(entries) >= 2 /\ allSuspended

\* ---- C6
\* whether the i-th OS call of the run failed
Failed(i) ==
  LET c == calls[i]
  IN CASE c.op = "GetProcAddress" -> c.ret = 0
       [] c.op = "OpenProcess" -> c.ret = NullHandle
       [] c.op = "CreateToolhelp32Snapshot" -> c.ret = InvalidHandleValue
       [] c.op = "OpenThread" -> c.ret = NullHandle
       [] c.op = "SuspendThread" -> c.ret < 0
       [] c.op = "ResumeThread" -> c.ret < 0
       [] c.op = "CloseHandle" -> c.ret = 0
       [] OTHER -> c.ret # 0
FirstFailure(i) == Failed(i) /\ \A j \in 1..(i - 1) : ~Failed(j)

\* the pid named no process at any time of the run
NonexistentPid == Undisturbed /\ ThreadsOf(owner0, pid) = {}

\* C6 as stated: with a nonexistent pid each verb exits 1 and prints one
\* diagnostic; for suspend and resume it is a decoded OS error naming the call
\* that failed (OpenProcess, once the primitive is resolved); status, whose
\* calls may all succeed, names its failed call or reports that no thread was
\* found.
C6_Claim ==
  (Done /\ cmd # "none" /\ NonexistentPid) =>
     /\ rc = 1
     /\ Len(out) = 1
     /\ \/ /\ out[1].decoded
           /\ \E i \in 1..Len(calls) : FirstFailure(i) /\ out[1].call = calls[i].op
        \/ IsStatus /\ out[1].call = "NoThreads"

\* ---- C7
\* C7 as stated: when OpenProcess fails, apply returns 1 at once: no primitive
\* is invoked and no handle is closed after the failed open.
C7_Claim ==
  \A i \in CallsTo("OpenProcess") :
     calls[i].ret = NullHandle => (Len(calls) = i /\ Done /\ rc = 1)

\* ---- C8
\* C8: every handle acquired is open until its single close, is never closed
\* twice, and is closed by the time the invocation returns.
C8_HandlesReleased ==
  /\ \A h \in 1..Len(htab) : htab[h].closes <= 1 /\ (htab[h].open <=> htab[h].closes = 0)
  /\ Done => \A h \in 1..Len(htab) : ~htab[h].open /\ htab[h].closes = 1

C8_Witness ==
  /\ Done /\ IsStatus /\ Len(htab) >= 2
  /\ \E i \in 1..Len(calls) : Failed(i)

\* ---- C9
Unopenable(i) == ~CanOpenThread(entries[i].th32ThreadID)
ReachedBeforeRunning(i) ==
  \A j \in TargetEntries : j < i => count0[entries[j].th32ThreadID] >= 1

Malformed == Len(argv) # 3 \/ (Len(argv) = 3 /\ argv[2] \notin Verbs)

\* C10: a malformed invocation issues no OS call and opens no handle, and
\* once main has run it has printed the usage text and exited with 1.
C10_Usage ==
  Malformed => /\ calls = <<>> /\ htab = <<>>
               /\ pc \in {"main", "exit"}
               /\ Done => (rc = 1 /\ out = <<UsageLine>>)
               /\ Undisturbed => (count = count0 /\ owner = owner0)

C10_Witness == Done /\ Len(argv) = 3 /\ argv[2] \notin Verbs /\ out = <<UsageLine>>

\* ---- C11
IsApply == cmd \in {"Suspend", "Resume"}
Letters == {i \in 1..Len(out) : out[i].call \in {"T", "R"}}
Diagnostics == {i \in 1..Len(out) : out[i].call \notin {"T", "R"}}

\* C11: exit code and output agree on every finished run of a verb: status
\* returns 0 exactly when it printed one T or R line and no diagnostic; a run
\* that returns non-zero returns 1 with exactly one diagnostic line and no
\* T/R line; suspend and resume returning 0 printed nothing.
C11_ExitCodeMatchesOutput ==
  (Done /\ (IsStatus \/ IsApply)) =>
     /\ rc \in {0, 1}
     /\ IsStatus => (rc = 0 <=> (Cardinality(Letters) = 1 /\ Diagnostics = {}))
     /\ rc = 1 => (Cardinality(Diagnostics) = 1 /\ Letters = {} /\ Len(out) = 1)
     /\ (IsApply /\ rc = 0) => out = <<>>

C11_Witness ==
  /\ Done /\ cmd = "Suspend" /\ rc = 1
  /\ \E i \in CallsTo("NtSuspendProcess") : calls[i].ret = 1 /\ calls[i].arg # NullHandle
  /\ Len(out) = 1 /\ out[1].call = "NtSuspendProcess"

\* ---- C12
ThreadHandles == {h \in 1..Len(htab) : htab[h].kind = "thread"}
SuspendsOn(h) == {i \in CallsTo("SuspendThread") : calls[i].arg = h}
ResumesOn(h) == {i \in CallsTo("ResumeThread") : calls[i].arg = h}
SuspendFailedOn(h) == \E i \in SuspendsOn(h) : calls[i].ret < 0
ResumeFailedOn(h) == \E i \in ResumesOn(h) : calls[i].ret < 0

RunningSeen == {i \in Probes : calls[i].ret = 0}

\* after a probe reported 0 the only call left is the resume of that thread
ShortCircuit ==
  \A i \in RunningSeen : \A j \in 1..Len(calls) :
     j > i => /\ calls[j].op \notin {"OpenThread", "SuspendThread"}
              /\ calls[j].op = "ResumeThread" => calls[j].arg = calls[i].arg

FirstTarget == CHOOSE i \in TargetEntries : \A j \in TargetEntries : i <= j

\* when all threads of P are running only the first one enumerated is touched
OnlyFirstTouched ==
  (Undisturbed /\ SnapshotTaken /\ TargetEntries # {}
     /\ \A i \in TargetEntries : count0[entries[i].th32ThreadID] = 0)
  => /\ Cardinality(CallsTo("OpenThread")) <= 1
     /\ \A j \in CallsTo("OpenThread") : calls[j].arg = entries[FirstTarget].th32ThreadID
     /\ \A h \in ThreadHandles : htab[h].obj = entries[FirstTarget].th32ThreadID

\* C13 as stated: once a probed thread of P reported previous count 0, status
\* prints R and opens, suspends or resumes no thread enumerated later; when
\* all threads of P are running only the first one enumerated is touched.
C13_Original ==
  IsStatus =>
     /\ ShortCircuit
     /\ (Done /\ RunningSeen # {}) => PrintedOnly("R")
     /\ OnlyFirstTouched

\* C13 (amended): once a probed thread of P reported previous count 0, no
\* thread enumerated later is opened, suspended or resumed, and status prints
\* R and returns 0 if the resume of that thread succeeds, and returns 1
\* without T or R if it fails; when all threads of P are running only the
\* first one enumerated is touched.
C13_ShortCircuit ==
  IsStatus =>
     /\ ShortCircuit
     /\ (Done /\ RunningSeen # {}) =>
           IF \E i \in CallsTo("ResumeThread") : calls[i].ret < 0
             THEN rc = 1 /\ ~PrintedLetter
             ELSE rc = 0 /\ PrintedOnly("R")
     /\ OnlyFirstTouched

C13_Witness ==
  /\ Done /\ IsStatus /\ Undisturbed /\ PrintedOnly("R")
  /\ Cardinality(TargetEntries) >= 2
  /\ \A i \in TargetEntries : count0[entries[i].th32ThreadID] = 0
  /\ Cardinality(CallsTo("OpenThread")) = 1 /\ Cardinality(RunningSeen) = 1

\* ---- C14
\* the thread the probe has just suspended belongs to another process
SuspendedForeign ==
  /\ pc = "ResumeThread"
  /\ LiveThreadHandle(thread)
  /\ Dword(owner[ThreadOf(thread)]) # pid

\* the count of a thread of another process decided the answer
ForeignCountUsed ==
  /\ Done /\ PrintedLetter
  /\ \E h \in ThreadHandles :
        /\ owner[htab[h].obj] # 0 /\ Dword(owner[htab[h].obj]) # pid
        /\ \E i \in SuspendsOn(h) : calls[i].ret >= 0

\* C14: status suspends or resumes no thread that belongs to a process other
\* than P when it is opened, and no such thread's count decides T or R, also
\* when thread identifiers of the snapshot are reused before the open.
C14_Claim == IsStatus => (~SuspendedForeign /\ ~ForeignCountUsed)

\* ---- C15
PrimitiveCalls == CallsTo("NtSuspendProcess") \cup CallsTo("NtResumeProcess")
ThreadLevelCalls ==
  CallsTo("CreateToolhelp32Snapshot") \cup CallsTo("OpenThread")
    \cup CallsTo("SuspendThread") \cup CallsTo("ResumeThread")

\* C15: a suspend or resume invocation calls the whole-process primitive of
\* its verb at most once; an unresolved primitive makes apply return 1 with no
\* process opened and no primitive called; a non-zero result is reported and
\* apply returns 1 with no second call; apply makes no thread-level call.
C15_SingleAttempt ==
  IsApply =>
     /\ Cardinality(PrimitiveCalls) <= 1
     /\ \A i \in PrimitiveCalls : calls[i].op = name
     /\ (\E i \in CallsTo("GetProcAddress") : calls[i].ret = 0) =>
           /\ Done /\ rc = 1
           /\ CallsTo("OpenProcess") = {} /\ PrimitiveCalls = {} /\ htab = <<>>
           /\ Undisturbed => count = count0
     /\ (\E i \in PrimitiveCalls : calls[i].ret # 0) =>
           /\ pc \in {"CloseHandle", "exit"}
           /\ out = <<Line(name, pid, TRUE)>>
           /\ Done => rc = 1
           /\ Undisturbed => count = count0
     /\ ThreadLevelCalls = {} /\ ThreadHandles = {}
     /\ Undisturbed => \A t \in Tids :
           count[t] \in {count0[t], IF suspend THEN count0[t] + 1 ELSE count0[t] - 1}

C15_Witness ==
  /\ Done /\ cmd = "Resume" /\ rc = 1 /\ Undisturbed
  /\ Cardinality(CallsTo("NtResumeProcess")) = 1
  /\ \E i \in CallsTo("NtResumeProcess") : calls[i].ret # 0 /\ calls[i].arg # NullHandle
  /\ \E t \in Tids : Dword(owner[t]) = pid /\ count[t] >= 1

\* ---- C16
Elevated == {t \in Tids : count[t] = count0[t] + 1}
OpenThreadHandles == {h \in ThreadHandles : htab[h].open}

\* C16: in every state of a status run with no other actor, each thread's
\* suspend count is its value before the probe or that value plus one, at
\* most one thread has the higher count, and at most one thread handle is
\* open.
C16_Transient ==
  (IsStatus /\ Undisturbed) =>
     /\ \A t \in Tids : count[t] \in {count0[t], count0[t] + 1}
     /\ Cardinality(Elevated) <= 1
     /\ Cardinality(OpenThreadHandles) <= 1
     /\ \A t \in Elevated : \E h \in ThreadHandles : htab[h].obj = t

C16_Witness ==
  /\ IsStatus /\ Undisturbed /\ pc = "ResumeThread"
  /\ Cardinality(ThreadHandles) = 2
  /\ Cardinality(OpenThreadHandles) = 1
  /\ \E t \in Elevated : count0[t] >= 1 /\ t = ThreadOf(thread)

\* ---- C17
\* the answer as a function of the threads of p and their counts alone
VerdictOf(own, cnt, p) == IF \A t \in ThreadsOf(own, p) : cnt[t] >= 1 THEN "T" ELSE "R"

\* the entries of P up to and including the first one that was running
ReachedEntries ==
  {i \in TargetEntries :
     \A j \in TargetEntries : j < i => count0[entries[j].th32ThreadID] >= 1}

\* C17: for given threads of P and given counts, when every snapshot, open,
\* suspend and resume succeeds and no other actor interferes, the line and
\* the exit code of status are determined by the threads and counts alone,
\* whatever the order of the snapshot; the order decides only which threads
\* are probed (those enumerated up to the first running one).
C17_OrderIndependent ==
  (Done /\ IsStatus /\ Undisturbed /\ StatusCallsSucceeded) =>
     /\ IF ThreadsOf(owner0, pid) = {}
          THEN rc = 1 /\ PrintedOnly("NoThreads")
          ELSE rc = 0 /\ PrintedOnly(VerdictOf(owner0, count0, pid))
     /\ ProbedTids = {entries[i].th32ThreadID : i \in ReachedEntries}

C17_Witness ==
  /\ Done /\ IsStatus /\ Undisturbed /\ StatusCallsSucceeded
  /\ PrintedOnly("R")
  /\ Cardinality(ProbedTids) >= 2
  /\ \E t \in ThreadsOf(owner0, pid) : count0[t] = 0
  /\ \E t \in ThreadsOf(owner0, pid) : count0[t] >= 1

\* ---- C18
\* the value of each pid argument modulo 2^32, worked out by hand:
\* 4294967297 = 2^32 + 1, 8589934594 = 2 * 2^32 + 2, -4294967295 = -2^32 + 1
PidModulo(a) ==
  CASE a = <<"1">> -> Dword(1)
    [] a = <<"4", "2", "9", "4", "9", "6", "7", "2", "9", "7">> -> Dword(1)
    [] a = <<"-", "4", "2", "9", "4", "9", "6", "7", "2", "9", "5">> -> Dword(1)
    [] a = <<"2">> -> Dword(2)
    [] a = <<"8", "5", "8", "9", "9", "3", "4", "5", "9", "4">> -> Dword(2)
    [] a = <<" ", "2", "x">> -> Dword(2)
    [] a = <<"a", "b", "c">> -> Dword(0)

\* C18: the process acted on is the pid argument's value modulo 2^32, so
\* arguments congruent modulo 2^32 act on the same process, and an argument
\* that is not a number targets pid 0 instead of being rejected with usage.
C18_PidNarrowed ==
  (Len(argv) = 3 /\ argv[2] \in Verbs /\ pc # "main") =>
     /\ pid = PidModulo(argv[3])
     /\ out # <<UsageLine>>
     /\ \A h \in 1..Len(htab) : htab[h].kind = "process" => htab[h].obj = PidModulo(argv[3])
     /\ \A i \in CallsTo("OpenThread") : calls[i].arg \in ThreadsOf(owner0, PidModulo(argv[3]))
     /\ \A t \in Tids : count[t] # count0[t] => t \in ThreadsOf(owner0, PidModulo(argv[3]))

C18_Witness ==
  /\ Done /\ cmd = "Suspend" /\ rc = 0
  /\ argv[3] = <<"4", "2", "9", "4", "9", "6", "7", "2", "9", "7">>
  /\ ThreadsOf(owner0, Dword(1)) # {}
  /\ \A t \in ThreadsOf(owner0, Dword(1)) : count[t] = count0[t] + 1
  /\ \A t \in Tids \ ThreadsOf(owner0, Dword(1)) : count[t] = count0[t]

\* ---- C19
\* the earlier runs of the session: k successful suspends of the pid, then j
\* successful resumes of it
Nested(k, j) ==
  /\ Len(log) = k + j
  /\ \A i \in 1..Len(log) :
        /\ log[i].pid = pid /\ log[i].rc = 0
        /\ log[i].cmd = IF i <= k THEN "Suspend" ELSE "Resume"

\* C19 as stated: after k successful suspends and then j successful resumes
\* of P, with no other actor, status(P) prints T while j < k and prints R
\* only when j >= k.
C19_Original ==
  \A k \in 1..MaxNest, j \in 0..MaxNest :
     (Done /\ IsStatus /\ Settled /\ Nested(k, j)) =>
        /\ j < k => PrintedOnly("T")
        /\ PrintedOnly("R") => j >= k

\* C19 (amended): after k successful suspends and then j successful resumes
\* of P, with no other actor, every thread of P has its initial count plus
\* k - j when status starts (j <= k); a status(P) whose OS calls all succeed
\* prints T while j < k, and status prints R only when j >= k.
C19_Nesting ==
  \A k \in 1..MaxNest, j \in 0..MaxNest :
     (IsStatus /\ Nested(k, j)) =>
        /\ j <= k => \A t \in ThreadsOf(owner0, pid) : count0[t] = log[1].count0[t] + k - j
        /\ (Done /\ Settled /\ StatusCallsSucceeded /\ j < k) => (rc = 0 /\ PrintedOnly("T"))
        /\ (Done /\ PrintedOnly("R")) => j >= k

C19_Witness ==
  /\ Done /\ IsStatus /\ Settled /\ Nested(2, 1) /\ StatusCallsSucceeded
  /\ PrintedOnly("T")
  /\ Cardinality(ThreadsOf(owner0, pid)) >= 2
  /\ \A t \in ThreadsOf(owner0, pid) : log[1].count0[t] = 0 /\ count0[t] = 1

====
